---- MODULE Spec2Model ----
(***************************************************************************)
(* Model of src/src/metrics-middleware.js (prometheus-api-metrics 2.1.2):  *)
(* the bootstrap factory, the request middleware, the 'finish' completion  *)
(* handler _handleResponse, the route classifier _getRoute and the exit    *)
(* hook _clearDefaultMetricsInternal.                                      *)
(*                                                                         *)
(* JavaScript strings are sequences of one-character strings, so that      *)
(* String.prototype.replace, concatenation and === are computed as the     *)
(* code computes them.  Metric names are sequences of name pieces.         *)
(***************************************************************************)
EXTENDS Integers, Sequences, FiniteSets, Bags, TLC

\* ------------------------------------------------------------------ bounds
\* Number of request/response cycles a behaviour goes through.
MaxRequests == 2
\* Number of times the exported factory is invoked in the process.
MaxBootstraps == 2

\* --------------------------------------------------------------- JS values
\* JavaScript undefined: a value different from every string of the model.
Undefined == <<"undefined">>

\* JavaScript truthiness of a value that is a string or undefined.
Truthy(v) == v # Undefined /\ v # <<>>

\* String.prototype.indexOf: the 1-based position of the first occurrence of
\* pattern p in s, 0 when there is none (the empty pattern matches at 1).
IndexOf(s, p) ==
    LET hits == { i \in 1..(Len(s) - Len(p) + 1) : SubSeq(s, i, i + Len(p) - 1) = p }
    IN  IF hits = {} THEN 0 ELSE CHOOSE i \in hits : \A j \in hits : i <= j

\* Whether s contains p as a substring.
Contains(s, p) == IndexOf(s, p) # 0

\* String.prototype.replace with a string pattern: only the FIRST occurrence
\* of p is replaced (the replacement pieces of the model hold no '$').
Replace(s, p, w) ==
    LET i == IndexOf(s, p)
    IN  IF i = 0 THEN s
        ELSE SubSeq(s, 1, i - 1) \o w \o SubSeq(s, i + Len(p), Len(s))

\* Value of a decimal digit character, -1 for any other character.
DigitValue(c) ==
    CASE c = "0" -> 0 [] c = "1" -> 1 [] c = "2" -> 2 [] c = "3" -> 3
      [] c = "4" -> 4 [] c = "5" -> 5 [] c = "6" -> 6 [] c = "7" -> 7
      [] c = "8" -> 8 [] c = "9" -> 9 [] OTHER -> -1

RECURSIVE SkipSpaces(_)
SkipSpaces(s) == IF s # <<>> /\ Head(s) = " " THEN SkipSpaces(Tail(s)) ELSE s

\* The longest prefix of decimal digits of s, accumulated onto acc;
\* seen tells whether a digit was consumed.
RECURSIVE Digits(_, _, _)
Digits(s, acc, seen) ==
    IF s # <<>> /\ DigitValue(Head(s)) >= 0
    THEN Digits(Tail(s), acc * 10 + DigitValue(Head(s)), TRUE)
    ELSE [nan |-> ~seen, n |-> acc]

\* parseInt(v) without a radix, for undefined and for strings that do not
\* start with the hexadecimal prefix 0x: leading white space is skipped, an
\* optional sign is read, then the longest run of digits; NaN when no digit.
ParseInt(v) ==
    IF v = Undefined THEN [nan |-> TRUE, n |-> 0]
    ELSE LET t == SkipSpaces(v)
             neg == t # <<>> /\ Head(t) = "-"
             u == IF t # <<>> /\ Head(t) \in {"-", "+"} THEN Tail(t) ELSE t
             d == Digits(u, 0, FALSE)
         IN  [nan |-> d.nan, n |-> IF neg THEN 0 - d.n ELSE d.n]

\* parseInt(v) || 0 : NaN and 0 are falsy.
ParseIntOrZero(v) == LET p == ParseInt(v) IN IF p.nan THEN 0 ELSE p.n

\* ------------------------------------------------------------ string pieces
Root == <<"/">>
DefaultMetricsPath == <<"/", "m", "e", "t", "r", "i", "c", "s">>
DotJson == <<".", "j", "s", "o", "n">>
Colon == <<":">>

\* ------------------------------------------------------- route classifier
\* A request as _getRoute reads it.  An absent object is flattened:
\*   routePath       req.route.path, Undefined when req.route is absent
\*   swaggerApiPath  req.swagger.apiPath, Undefined when req.swagger is absent
\*   params.isObject typeof req.params === 'object'
\*   params.entries  the own keys of req.params in Object.keys order, each
\*                   entry <<name, value>>
\*   hasRes          req.res is set (Express links the response to the request)
\*   statusCode      req.res.statusCode, which is the response's statusCode

\* Mutant of DeriveRoute: the raw-URL branch of lines 125-130 is missing.
DeriveRouteNoRawUrl(req) ==
    IF req.swaggerApiPath # Undefined
    THEN req.swaggerApiPath
    ELSE IF req.routePath # Undefined /\ Truthy(req.baseUrl)
    THEN IF req.routePath # Root
         THEN req.baseUrl \o req.routePath
         ELSE req.baseUrl
    ELSE req.baseUrl

\* Mutant of DeriveRoute: the test of line 122 is missing, the pattern is
\* always appended to the base path.
DeriveRouteAlwaysAppends(req) ==
    IF req.swaggerApiPath # Undefined
    THEN req.swaggerApiPath
    ELSE IF req.routePath # Undefined /\ Truthy(req.baseUrl)
    THEN req.baseUrl \o req.routePath
    ELSE IF Truthy(req.url) /\ ~Truthy(req.baseUrl)
    THEN IF req.routePath # Undefined THEN req.routePath ELSE req.url
    ELSE req.baseUrl

\* Lines 117-130: the label before parameter substitution.
DeriveRoute(req) ==
    IF req.swaggerApiPath # Undefined
    THEN req.swaggerApiPath
    ELSE IF req.routePath # Undefined /\ Truthy(req.baseUrl)
    THEN IF req.routePath # Root
         THEN req.baseUrl \o req.routePath
         ELSE req.baseUrl
    ELSE IF Truthy(req.url) /\ ~Truthy(req.baseUrl)
    THEN IF req.routePath # Undefined THEN req.routePath ELSE req.url
    ELSE req.baseUrl

\* Lines 134-136: forEach over Object.keys(req.params), each step one
\* String.prototype.replace of the value by ':' + paramName.
RECURSIVE SubstituteParams(_, _)
SubstituteParams(route, params) ==
    IF params = <<>> THEN route
    ELSE SubstituteParams(Replace(route, Head(params)[2], Colon \o Head(params)[1]),
                          Tail(params))

\* Line 135 calls route.replace: a TypeError when route is undefined and
\* req.params has at least one key.
SubstitutionThrows(req) ==
    req.params.isObject /\ req.params.entries # <<>> /\ DeriveRoute(req) = Undefined

\* Line 142: the guard that drops the label.
NotFoundGuard(req) ==
    req.routePath = Undefined /\ req.hasRes /\ req.statusCode = 404

\* _getRoute, lines 116-147: threw tells that the call raised instead of
\* returning; value is the returned label, Undefined for "no label".
_getRoute(req) ==
    IF SubstitutionThrows(req)
    THEN [threw |-> TRUE, value |-> Undefined]
    ELSE LET derived == DeriveRoute(req)
             route == IF req.params.isObject
                      THEN SubstituteParams(derived, req.params.entries)
                      ELSE derived
         IN  [threw |-> FALSE,
              value |-> IF NotFoundGuard(req) THEN Undefined ELSE route]

\* ------------------------------------------------------------------- state
VARIABLES
    \* module-level bindings, line 7
    metricsInterval,        \* handle returned by collectDefaultMetrics, 0 = undefined
    metricsRoute,           \* the path the middleware serves the registry on
    responseTimeHistogram,  \* name of the registered metric the binding refers to
    requestSizeHistogram,
    responseSizeHistogram,
    onExitEvent,            \* TRUE once process.on('exit', ...) returned
    metricNames,            \* the module-level object of lines 9-15
    \* the collaborators: prom-client's global registry, timers, the process
    register,               \* names of the metric definitions in Prometheus.register
    samples,                \* bag of the histogram observations made so far
    timers,                 \* handle -> [active, clears] for every sampler started
    libClearsExisting,      \* whether collectDefaultMetrics stops the sampler of
                            \* its previous call (decided by the prom-client build)
    exitListeners,          \* number of listeners registered for process 'exit'
    exited,                 \* the process emitted 'exit'
    bootstraps,             \* number of calls of the exported factory so far
    raised,                 \* a metric constructor raised "already registered"
    lastOptions,            \* history: the options of the latest factory call
    configuredPaths,        \* history: the metrics paths the factory calls
                            \* configured, one per middleware handed out
    \* per request/response cycle
    pc,                     \* where the cycle stands
    req,                    \* the request object
    res,                    \* the response object
    handled,                \* number of _handleResponse runs for the cycle
    route,                  \* what _getRoute gave the last _handleResponse run
    nextCalls               \* number of times the middleware called next()

moduleVars == <<metricsInterval, metricsRoute, responseTimeHistogram,
                requestSizeHistogram, responseSizeHistogram, onExitEvent,
                metricNames>>
processVars == <<timers, libClearsExisting, exitListeners, exited, bootstraps, raised,
                 lastOptions, configuredPaths>>
requestVars == <<pc, req, res, handled, route, nextCalls>>
vars == <<moduleVars, register, samples, processVars, requestVars>>

Requests == 1..MaxRequests

\* ------------------------------------------------------------ metric names
\* The name of the package that requires the middleware, after
\* name.replace(/-/g, '_') of line 21.
projectName == "my_service"

\* Line 9-15: the initial metricNames object.  A name is the sequence of
\* its pieces; `${projectName}_${name}` puts two pieces in front.
InitialMetricNames ==
    [http_request_duration_seconds |-> <<"http_request_duration_seconds">>,
     app_version                   |-> <<"app_version">>,
     http_request_size_bytes       |-> <<"http_request_size_bytes">>,
     http_response_size_bytes      |-> <<"http_response_size_bytes">>,
     defaultMetricsPrefix          |-> <<>>]

\* The template literal `${projectName}_${name}` of lines 28-31.
Prefixed(name) == <<projectName, "_">> \o name

\* Lines 27-33: the names after the useUniqueHistogramName branch.
UniqueNames(names) ==
    [http_request_duration_seconds |-> Prefixed(names.http_request_duration_seconds),
     app_version                   |-> Prefixed(names.app_version),
     http_request_size_bytes       |-> Prefixed(names.http_request_size_bytes),
     http_response_size_bytes      |-> Prefixed(names.http_response_size_bytes),
     defaultMetricsPrefix          |-> <<projectName, "_">>]

\* Prometheus.register.getSingleMetric(name): the definition, if any.
getSingleMetric(reg, name) == name \in reg

\* new Prometheus.Histogram / Gauge: registers the name in the registry and
\* raises when a definition of that name is registered already.
NewMetric(reg, name) == [reg |-> reg \cup {name}, raised |-> name \in reg]

\* The declared metric a registered name stands for: its last piece.
BaseName(name) == name[Len(name)]

\* ------------------------------------------------------------- the factory
\* Prometheus.collectDefaultMetrics (called at line 35): starts a recurring
\* sampler and returns its handle.  Whether the call also stops the sampler
\* its previous call started is the library's business (clears).
collectDefaultMetrics(tm, clears) ==
    LET prev == Len(tm)
        stopped == IF clears /\ prev > 0
                   THEN [tm EXCEPT ![prev] = [active |-> FALSE, clears |-> @.clears + 1]]
                   ELSE tm
    IN  Append(stopped, [active |-> TRUE, clears |-> 0])

\* clearInterval(handle): stops the timer; no effect on undefined.
clearInterval(tm, handle) ==
    IF handle \in DOMAIN tm
    THEN [tm EXCEPT ![handle] = [active |-> FALSE, clears |-> @.clears + 1]]
    ELSE tm

\* Lines 37-38, 48, 56, 63: `getSingleMetric(name) || new Metric(name)`.
\* st is [reg, raised]: the registry and whether a constructor has raised.
GetOrCreate(st, name) ==
    IF getSingleMetric(st.reg, name)
    THEN st
    ELSE LET m == NewMetric(st.reg, name)
         IN  [reg |-> m.reg, raised |-> st.raised \/ m.raised]

\* Lines 37-68: the four definitions, in the order the factory handles them.
RegisterMetrics(reg, names) ==
    GetOrCreate(
      GetOrCreate(
        GetOrCreate(
          GetOrCreate([reg |-> reg, raised |-> FALSE], names.app_version),
          names.http_request_duration_seconds),
        names.http_request_size_bytes),
      names.http_response_size_bytes)

\* module.exports, lines 17-75, called with options
\* [metricsPath, useUniqueHistogramName] (the bucket lists and the sampler
\* interval do not reach the state modelled here).
bootstrapWith(options) ==
    LET names == IF options.useUniqueHistogramName
                 THEN UniqueNames(metricNames) ELSE metricNames
    IN  /\ ~exited
        /\ bootstraps' = bootstraps + 1
        /\ metricsRoute' = IF Truthy(options.metricsPath)
                           THEN options.metricsPath ELSE DefaultMetricsPath
        /\ metricNames' = names
        /\ timers' = collectDefaultMetrics(timers, libClearsExisting)
        /\ metricsInterval' = Len(timers) + 1
        /\ register' = RegisterMetrics(register, names).reg
        /\ raised' = (raised \/ RegisterMetrics(register, names).raised)
        /\ responseTimeHistogram' = names.http_request_duration_seconds
        /\ requestSizeHistogram' = names.http_request_size_bytes
        /\ responseSizeHistogram' = names.http_response_size_bytes
        /\ onExitEvent' = TRUE
        /\ exitListeners' = IF onExitEvent THEN exitListeners ELSE exitListeners + 1
        /\ lastOptions' = options
        /\ configuredPaths' = configuredPaths \cup {metricsRoute'}
        /\ UNCHANGED <<libClearsExisting, exited, samples, requestVars>>

\* _clearDefaultMetricsInternal, lines 149-152.
_clearDefaultMetricsInternal(tm) == clearInterval(tm, metricsInterval)

RECURSIVE RunExitListeners(_, _)
RunExitListeners(tm, n) ==
    IF n = 0 THEN tm ELSE RunExitListeners(_clearDefaultMetricsInternal(tm), n - 1)

\* The process emits 'exit': every registered listener runs, nothing after.
exit ==
    /\ ~exited
    /\ exited' = TRUE
    /\ timers' = RunExitListeners(timers, exitListeners)
    /\ UNCHANGED <<moduleVars, register, samples, libClearsExisting,
                   exitListeners, bootstraps, raised, lastOptions,
                   configuredPaths, requestVars>>

\* ------------------------------------------------------------ the requests
\* A request before the middleware saw it.
NoRequest ==
    [method |-> "", url |-> Undefined, contentLength |-> Undefined,
     baseUrl |-> Undefined, routePath |-> Undefined, swaggerApiPath |-> Undefined,
     params |-> [isObject |-> FALSE, entries |-> <<>>],
     hasRes |-> FALSE, statusCode |-> 200,
     metrics |-> [attached |-> FALSE,
                  timer |-> [histogram |-> Undefined, method |-> "", started |-> 0],
                  contentLength |-> 0]]

\* A response before anything was written to it.
NoResponse ==
    [statusCode |-> 200, contentLength |-> Undefined, body |-> "none",
     contentType |-> "none", finishListeners |-> 0, downstream |-> "none"]

\* Mutant of MetricsEndpoint: the '.json' test of line 83 is missing.
MetricsEndpointTextOnly(url, path) ==
    IF url = path THEN "text" ELSE "none"

\* Mutant of MetricsEndpoint: the test of line 78 matches every URL that
\* starts with the metrics path.
MetricsEndpointPrefix(url, path) ==
    IF Len(url) >= Len(path) /\ SubSeq(url, 1, Len(path)) = path /\ url # path \o DotJson
    THEN "text"
    ELSE IF url = path \o DotJson THEN "json"
    ELSE "none"

\* Lines 78 and 83: which snapshot, if any, the middleware serves for url
\* when the metrics path is path; both tests are ===.
MetricsEndpoint(url, path) ==
    IF url = path THEN "text"
    ELSE IF url = path \o DotJson THEN "json"
    ELSE "none"

\* Mutant of RegisterFinish: the completion callback is registered twice.
RegisterFinishTwice(listeners) == listeners + 2

\* Line 95, res.once('finish', ...): one more listener on the response.
RegisterFinish(listeners) == listeners + 1

\* middleware, lines 77-101, on cycle r for the arriving request a
\* [method, url, contentLength].
middleware(r, a) ==
    LET q == [NoRequest EXCEPT !.method = a.method, !.url = a.url,
                               !.contentLength = a.contentLength]
        endpoint == MetricsEndpoint(a.url, metricsRoute)
    IN  /\ ~exited
        /\ bootstraps > 0
        /\ pc[r] = "idle"
        /\ IF r = 1 THEN TRUE ELSE pc[r - 1] # "idle"
        /\ IF endpoint = "text"
           THEN /\ req' = [req EXCEPT ![r] = q]
                /\ res' = [res EXCEPT ![r].body = "text", ![r].contentType = "registry"]
                /\ pc' = [pc EXCEPT ![r] = "served"]
                /\ UNCHANGED nextCalls
           ELSE IF endpoint = "json"
           THEN /\ req' = [req EXCEPT ![r] = q]
                /\ res' = [res EXCEPT ![r].body = "json"]
                /\ pc' = [pc EXCEPT ![r] = "served"]
                /\ UNCHANGED nextCalls
           ELSE /\ req' = [req EXCEPT ![r] =
                            [q EXCEPT !.metrics =
                               [attached |-> TRUE,
                                timer |-> [histogram |-> responseTimeHistogram,
                                           method |-> a.method, started |-> r],
                                contentLength |-> ParseIntOrZero(a.contentLength)]]]
                /\ res' = [res EXCEPT ![r].finishListeners = RegisterFinish(@)]
                /\ pc' = [pc EXCEPT ![r] = "downstream"]
                /\ nextCalls' = [nextCalls EXCEPT ![r] = @ + 1]
        /\ UNCHANGED <<moduleVars, register, samples, processVars, handled, route>>

\* One histogram observation: the metric, its label tuple and the value
\* (bytes for the size histograms; for the duration histogram the elapsed
\* time of the timer that cycle n started).
Sample(name, method, label, code, unit, n) ==
    [name |-> name, method |-> method, route |-> label, code |-> code,
     unit |-> unit, n |-> n]

\* Mutant of Recordings: the response size is recorded under the raw URL.
RecordingsRawUrl(q, s, label, responseLength) ==
    SetToBag({Sample(requestSizeHistogram, q.method, label, s.statusCode,
                     "bytes", q.metrics.contentLength)})
    (+) SetToBag({Sample(q.metrics.timer.histogram, q.metrics.timer.method, label,
                         s.statusCode, "seconds", q.metrics.timer.started)})
    (+) SetToBag({Sample(responseSizeHistogram, q.method, q.url, s.statusCode,
                         "bytes", responseLength)})

\* Mutant of Recordings: the request context is one module-level object that
\* every request start overwrites, instead of a property of the request.
RecordingsSharedContext(q, s, label, responseLength) ==
    LET last == CHOOSE r \in Requests :
                    pc[r] # "idle" /\ \A r2 \in Requests : r2 > r => pc[r2] = "idle"
        metrics == req[last].metrics
    IN  SetToBag({Sample(requestSizeHistogram, q.method, label, s.statusCode,
                         "bytes", metrics.contentLength)})
        (+) SetToBag({Sample(metrics.timer.histogram, metrics.timer.method, label,
                             s.statusCode, "seconds", metrics.timer.started)})
        (+) SetToBag({Sample(responseSizeHistogram, q.method, label, s.statusCode,
                             "bytes", responseLength)})

\* Lines 109-111: the three recordings for label.
Recordings(q, s, label, responseLength) ==
    SetToBag({Sample(requestSizeHistogram, q.method, label, s.statusCode,
                     "bytes", q.metrics.contentLength)})
    (+) SetToBag({Sample(q.metrics.timer.histogram, q.metrics.timer.method, label,
                         s.statusCode, "seconds", q.metrics.timer.started)})
    (+) SetToBag({Sample(responseSizeHistogram, q.method, label, s.statusCode,
                         "bytes", responseLength)})

\* _handleResponse, lines 103-114, for request q and response s: what
\* _getRoute gave, and the observations made.
_handleResponse(q, s) ==
    LET responseLength == ParseIntOrZero(s.contentLength)
        got == _getRoute(q)
    IN  [route |-> got,
         observed |-> IF ~got.threw /\ Truthy(got.value)
                      THEN Recordings(q, s, got.value, responseLength)
                      ELSE EmptyBag]

\* Mutant of HandledObjects: the assignments to route of lines 120-128
\* write through to req.baseUrl.
HandledObjectsRouteWritten(q, s) ==
    [req |-> [q EXCEPT !.baseUrl = DeriveRoute(q)], res |-> s]

\* The request and the response as _handleResponse and _getRoute leave
\* them, lines 103-147: both only read them (res.get, req.res, req.baseUrl,
\* req.swagger, req.route, req.url, req.params); route and res are local
\* variables and every assignment of lines 118-135 rebinds route.
HandledObjects(q, s) == [req |-> q, res |-> s]

RECURSIVE Times(_, _)
Times(bag, n) == IF n = 0 THEN EmptyBag ELSE bag (+) Times(bag, n - 1)

\* The response of cycle r emits 'finish', request and response being q and
\* s by then: every listener registered with res.once runs and is removed.
EmitFinish(r, q, s) ==
    LET n == s.finishListeners
        run == _handleResponse(q, s)
        left == IF n > 0 THEN HandledObjects(q, s) ELSE [req |-> q, res |-> s]
    IN  /\ req' = [req EXCEPT ![r] = left.req]
        /\ res' = [res EXCEPT ![r] = [left.res EXCEPT !.finishListeners = 0]]
        /\ pc' = [pc EXCEPT ![r] = "finished"]
        /\ handled' = [handled EXCEPT ![r] = @ + n]
        /\ route' = IF n > 0 THEN [route EXCEPT ![r] = run.route] ELSE route
        /\ samples' = samples (+) Times(run.observed, n)
        /\ UNCHANGED <<moduleVars, register, processVars, nextCalls>>

\* Downstream processing of cycle r ends the response: the framework left
\* routing outcome o on the request and the response, then 'finish' fires.
downstreamFinish(r, o) ==
    /\ ~exited
    /\ pc[r] = "downstream"
    /\ EmitFinish(r,
         [req[r] EXCEPT !.baseUrl = o.baseUrl, !.routePath = o.routePath,
                        !.swaggerApiPath = o.swaggerApiPath, !.params = o.params,
                        !.hasRes = o.hasRes, !.statusCode = o.statusCode],
         [res[r] EXCEPT !.statusCode = o.statusCode,
                        !.contentLength = o.contentLength,
                        !.downstream = o.downstream])

\* The response the middleware itself ended (lines 81, 85) emits 'finish'.
servedFinish(r) ==
    /\ ~exited
    /\ pc[r] = "served"
    /\ EmitFinish(r, req[r], res[r])

\* The connection of cycle r is closed before the response was ended: the
\* response emits 'close' and never 'finish'.
close(r) ==
    /\ ~exited
    /\ pc[r] = "downstream"
    /\ pc' = [pc EXCEPT ![r] = "closed"]
    /\ UNCHANGED <<moduleVars, register, samples, processVars,
                   req, res, handled, route, nextCalls>>

\* ------------------------------------------------------------- input sets
UserUrl == <<"/", "u", "/", "1">>
AltMetricsPath == <<"/", "m">>
QueryString == <<"?", "a">>
UserPattern == <<"/", "u", "/", ":", "i", "d">>
ApiPattern == <<"/", "u", "/", "{", "i", "d", "}">>
MountPath == <<"/", "a">>
MountedWithValue == <<"/", "v", "1", "/", "u", "/", "1">>
IdParam == <<<<"i", "d">>, <<"1">>>>
KindParam == <<<<"k">>, <<"u">>>>

NoParams == [isObject |-> FALSE, entries |-> <<>>]
EmptyParams == [isObject |-> TRUE, entries |-> <<>>]
OneParam == [isObject |-> TRUE, entries |-> <<IdParam>>]
TwoParams == [isObject |-> TRUE, entries |-> <<IdParam, KindParam>>]

\* Options the factory is called with: none, or another metrics path
\* together with per-service metric names.
OptionSets ==
    { [metricsPath |-> Undefined, useUniqueHistogramName |-> FALSE],
      [metricsPath |-> AltMetricsPath, useUniqueHistogramName |-> TRUE] }
DefaultOptions == [metricsPath |-> Undefined, useUniqueHistogramName |-> FALSE]

\* Requests of the lifecycle specification.
Arrivals ==
    { [method |-> "GET", url |-> DefaultMetricsPath, contentLength |-> Undefined],
      [method |-> "GET", url |-> AltMetricsPath, contentLength |-> Undefined],
      [method |-> "POST", url |-> UserUrl, contentLength |-> <<"1", "2", "0">>] }

\* Routing outcomes of the lifecycle specification: an Express route match,
\* an Express miss answered 404, a failure inside a mounted router answered
\* 500 by the error handler.
Outcomes ==
    { [baseUrl |-> <<>>, routePath |-> UserPattern, swaggerApiPath |-> Undefined,
       params |-> OneParam, hasRes |-> TRUE, statusCode |-> 200,
       contentLength |-> <<"3", "4", "0">>, downstream |-> "completed"],
      [baseUrl |-> <<>>, routePath |-> Undefined, swaggerApiPath |-> Undefined,
       params |-> EmptyParams, hasRes |-> TRUE, statusCode |-> 404,
       contentLength |-> Undefined, downstream |-> "completed"],
      [baseUrl |-> MountPath, routePath |-> Undefined, swaggerApiPath |-> Undefined,
       params |-> EmptyParams, hasRes |-> TRUE, statusCode |-> 500,
       contentLength |-> Undefined, downstream |-> "threw"] }

\* Requests and routing outcomes of the classifier specification: every
\* combination of the routing metadata _getRoute reads.
WideArrivals ==
    [method : {"GET", "POST"},
     url : {UserUrl, DefaultMetricsPath, DefaultMetricsPath \o DotJson, Undefined,
            AltMetricsPath, DefaultMetricsPath \o QueryString},
     contentLength : {Undefined, <<"1", "2", "0">>, <<"a", "b">>,
                      <<"-", "5">>, <<"1", "2", "a", "b">>}]

WideOutcomes ==
    [baseUrl : {Undefined, <<>>, MountPath, MountedWithValue},
     routePath : {Undefined, Root, UserPattern},
     swaggerApiPath : {Undefined, ApiPattern},
     params : {NoParams, EmptyParams, OneParam, TwoParams},
     hasRes : BOOLEAN,
     statusCode : {200, 404, 500},
     contentLength : {<<"3", "4", "0">>, <<"-", "5">>},
     downstream : {"completed"}]

\* ------------------------------------------------------------ specification
\* The state once the module is loaded (lines 7-15), no request seen yet.
Init ==
    /\ metricsInterval = 0
    /\ metricsRoute = Undefined
    /\ responseTimeHistogram = Undefined
    /\ requestSizeHistogram = Undefined
    /\ responseSizeHistogram = Undefined
    /\ onExitEvent = FALSE
    /\ metricNames = InitialMetricNames
    /\ register = {}
    /\ samples = EmptyBag
    /\ timers = <<>>
    /\ libClearsExisting \in BOOLEAN
    /\ exitListeners = 0
    /\ exited = FALSE
    /\ bootstraps = 0
    /\ raised = FALSE
    /\ lastOptions = DefaultOptions
    /\ configuredPaths = {}
    /\ pc = [r \in Requests |-> "idle"]
    /\ req = [r \in Requests |-> NoRequest]
    /\ res = [r \in Requests |-> NoResponse]
    /\ handled = [r \in Requests |-> 0]
    /\ route = [r \in Requests |-> [threw |-> FALSE, value |-> Undefined]]
    /\ nextCalls = [r \in Requests |-> 0]

Bootstrap == \E options \in OptionSets : bootstraps < MaxBootstraps /\ bootstrapWith(options)
Request == \E r \in Requests, a \in Arrivals : middleware(r, a)
Finish == \E r \in Requests, o \in Outcomes : downstreamFinish(r, o)
ServedFinish == \E r \in Requests : servedFinish(r)
Close == \E r \in Requests : close(r)
Exit == exit

Next == Bootstrap \/ Request \/ Finish \/ ServedFinish \/ Close \/ Exit

\* The lifecycle: bootstraps, interleaved request cycles, process exit.
Spec == Init /\ [][Next]_vars

NextRequests == Bootstrap \/ Request \/ Finish \/ ServedFinish \/ Close

\* The lifecycle while the process runs (no process exit).
RequestSpec == Init /\ [][NextRequests]_vars

BootstrapDefault == bootstraps = 0 /\ bootstrapWith(DefaultOptions)
WideRequest == \E a \in WideArrivals : middleware(1, a)
WideFinish == \E o \in WideOutcomes : downstreamFinish(1, o)
WideServedFinish == servedFinish(1)
WideClose == close(1)

NextRoute == BootstrapDefault \/ WideRequest \/ WideFinish \/ WideServedFinish \/ WideClose

\* The classifier: one request cycle over every combination of routing
\* metadata, after one bootstrap with the default options.
RouteSpec == Init /\ [][NextRoute]_vars

\* ------------------------------------------------------------------ claims
\* A cycle whose completion handler ran and whose _getRoute call returned.
Classified(r) == handled[r] > 0 /\ ~route[r].threw

\* The label of the last _handleResponse run of cycle r.
Label(r) == route[r].value

\* Lines 133-137 as _getRoute applies them to a derived label.
Substituted(q, derived) ==
    IF q.params.isObject THEN SubstituteParams(derived, q.params.entries) ELSE derived

\* C1 (as claimed): a completed request with no resolved route and a final
\* status of 404 gets no label from _getRoute and no observation is made on
\* any histogram, whatever the URL, base path and path parameters are.
\* (A label that is undefined or empty makes the caller skip the recording.)
C1_NoLabelOn404 ==
    \A r \in Requests :
        (handled[r] > 0 /\ req[r].routePath = Undefined /\ res[r].statusCode = 404)
            => (~Truthy(Label(r)) /\ samples = EmptyBag)

\* s with EVERY occurrence of p replaced by w, left to right (p not empty).
RECURSIVE ReplaceAll(_, _, _)
ReplaceAll(s, p, w) ==
    LET i == IndexOf(s, p)
    IN  IF i = 0 \/ p = <<>> THEN s
        ELSE SubSeq(s, 1, i - 1) \o w
             \o ReplaceAll(SubSeq(s, i + Len(p), Len(s)), p, w)

RECURSIVE SubstituteAll(_, _)
SubstituteAll(label, params) ==
    IF params = <<>> THEN label
    ELSE SubstituteAll(ReplaceAll(label, Head(params)[2], Colon \o Head(params)[1]),
                       Tail(params))

\* C2 (as claimed): when the framework resolved a route pattern and a
\* parameter mapping, the label is the derived pattern with every occurrence
\* of every parameter value replaced by ':' + name, and holds no raw value.
C2_EveryOccurrenceReplaced ==
    \A r \in Requests :
        (Classified(r) /\ req[r].routePath # Undefined /\ req[r].params.isObject)
            => /\ Label(r) = SubstituteAll(DeriveRoute(req[r]), req[r].params.entries)
               /\ \A i \in DOMAIN req[r].params.entries :
                      ~Contains(Label(r), req[r].params.entries[i][2])

\* The premise of C3: a completed request that has a raw URL, no resolved
\* route, no alternate routing descriptor, and a final status other than 404.
UnroutedNot404(r) ==
    /\ Classified(r)
    /\ Truthy(req[r].url)
    /\ req[r].routePath = Undefined
    /\ req[r].swaggerApiPath = Undefined
    /\ res[r].statusCode # 404

\* C3 (as claimed): such a request is labelled with its raw URL verbatim.
C3_RawUrlVerbatim ==
    \A r \in Requests : UnroutedNot404(r) => Label(r) = req[r].url

\* C3 (amended): such a request is labelled with its raw URL when the base
\* path is empty or absent and with the base path when there is one, in
\* both cases after the path-parameter substitution.
C3_RawUrlOrBasePath ==
    \A r \in Requests :
        UnroutedNot404(r)
            => Label(r) = Substituted(req[r],
                                      IF Truthy(req[r].baseUrl)
                                      THEN req[r].baseUrl ELSE req[r].url)

\* C3 witness: an unrouted request answered 500 in a framework that sets no
\* base path, labelled with its raw URL and observed.
C3_Witness ==
    \E r \in Requests :
        /\ UnroutedNot404(r)
        /\ res[r].statusCode = 500
        /\ ~Truthy(req[r].baseUrl)
        /\ Label(r) = req[r].url
        /\ samples # EmptyBag

\* C4 (as claimed): a request that carries req.swagger.apiPath is labelled
\* with that path pattern verbatim, whatever the other metadata are.
C4_ApiPathVerbatim ==
    \A r \in Requests :
        (handled[r] > 0 /\ req[r].swaggerApiPath # Undefined)
            => (~route[r].threw /\ Label(r) = req[r].swaggerApiPath)

\* The premise of C5: no alternate descriptor, a non-empty base path and a
\* matched route pattern.
MountedRoute(r) ==
    /\ handled[r] > 0
    /\ req[r].swaggerApiPath = Undefined
    /\ Truthy(req[r].baseUrl)
    /\ req[r].routePath # Undefined

\* C5: with no alternate descriptor, a non-empty base path and a matched
\* route pattern, the label is, before parameter substitution, the base path
\* followed by the pattern, and the base path alone when the pattern is '/'.
C5_BasePlusPattern ==
    \A r \in Requests :
        MountedRoute(r)
            => /\ ~route[r].threw
               /\ Label(r) = Substituted(req[r],
                                IF req[r].routePath = Root
                                THEN req[r].baseUrl
                                ELSE req[r].baseUrl \o req[r].routePath)

\* C5 witness: a request matched at the root of a mounted router, labelled
\* with the base path alone.
C5_Witness ==
    \E r \in Requests :
        /\ MountedRoute(r)
        /\ req[r].routePath = Root
        /\ ~req[r].params.isObject
        /\ Label(r) = req[r].baseUrl
        /\ samples # EmptyBag

\* The premise of C6: the middleware saw a request whose URL is the
\* configured metrics path, or that path followed by '.json'.
MetricsRequest(r) ==
    /\ pc[r] # "idle"
    /\ \/ req[r].url = metricsRoute
       \/ req[r].url = metricsRoute \o DotJson

\* C6: a request for the metrics path (or the path plus '.json') is served
\* the registry snapshot and nothing else happens: next is not called, no
\* request context or timer is attached, no completion callback is
\* registered or run, and no histogram observation is recorded.
C6_MetricsShortCircuit ==
    \A r \in Requests :
        MetricsRequest(r)
            => /\ res[r].body = (IF req[r].url = metricsRoute THEN "text" ELSE "json")
               /\ pc[r] \in {"served", "finished"}
               /\ nextCalls[r] = 0
               /\ ~req[r].metrics.attached
               /\ res[r].finishListeners = 0
               /\ handled[r] = 0
               /\ samples = EmptyBag

\* C6 witness: a request for the path plus '.json' was served the
\* structured snapshot and its response has finished.
C6_Witness ==
    \E r \in Requests :
        /\ req[r].url = metricsRoute \o DotJson
        /\ pc[r] = "finished"
        /\ res[r].body = "json"
        /\ nextCalls[r] = 0

\* A cycle the middleware passed downstream (not short-circuited).
PassedDownstream(r) == nextCalls[r] > 0

DurationMetric == "http_request_duration_seconds"
RequestSizeMetric == "http_request_size_bytes"
ResponseSizeMetric == "http_response_size_bytes"

\* x is an observation of a registered histogram of kind base under the
\* label tuple of cycle r's completion, with value n in unit.
ObservationOf(x, r, base, unit, n) ==
    /\ x.name \in register'
    /\ BaseName(x.name) = base
    /\ x.method = req[r].method
    /\ x.route = route'[r].value
    /\ x.code = res'[r].statusCode
    /\ x.unit = unit
    /\ x.n = n

\* One step in which the completion handler of cycle r runs.
C8_HandlerStep(r) ==
    LET new == samples' (-) samples
    IN  /\ samples' = samples (+) new
        /\ IF ~route'[r].threw /\ Truthy(route'[r].value)
           THEN /\ BagCardinality(new) = 3
                /\ \E a, b, c \in BagToSet(new) :
                      /\ a.name = requestSizeHistogram
                      /\ ObservationOf(a, r, RequestSizeMetric, "bytes",
                                       req[r].metrics.contentLength)
                      /\ b.name = req[r].metrics.timer.histogram
                      /\ ObservationOf(b, r, DurationMetric, "seconds", r)
                      /\ c.name = responseSizeHistogram
                      /\ ObservationOf(c, r, ResponseSizeMetric, "bytes",
                                       ParseIntOrZero(res'[r].contentLength))
           ELSE new = EmptyBag

\* C8: each run of the completion handler for which _getRoute returns a
\* label adds exactly one observation to the request-size, the duration and
\* the response-size histogram, all three under the same (method, route,
\* code) tuple, with the request size captured at request start, the timer
\* started by that request and the response's declared content length; a
\* run without a label adds nothing; after any bootstraps and requests.
C8_OneObservationEach ==
    [][\A r \in Requests : handled'[r] = handled[r] + 1 => C8_HandlerStep(r)]_vars

\* C8 witness: two requests, between bootstraps, were each recorded: six
\* observations in the registry.
C8_Witness ==
    \E r1, r2 \in Requests :
        /\ r1 # r2
        /\ bootstraps >= 2
        /\ \A r \in {r1, r2} : Classified(r) /\ Truthy(Label(r))
        /\ BagCardinality(samples) = 6

\* The four metrics the factory declares, by the last piece of their names.
DeclaredMetrics == {DurationMetric, RequestSizeMetric, ResponseSizeMetric, "app_version"}

\* C9 (as claimed): after any number of bootstrap calls, with any options,
\* no constructor has raised and the registry holds exactly one definition
\* for each of the four declared metrics.
C9_OneDefinitionPerMetric ==
    bootstraps > 0
        => /\ ~raised
           /\ \A base \in DeclaredMetrics :
                  Cardinality({name \in register : BaseName(name) = base}) = 1

ValidInteger(h) ==
    h # Undefined /\ h # <<>> /\ \A i \in DOMAIN h : DigitValue(h[i]) >= 0

RECURSIVE DecimalValue(_, _)
DecimalValue(h, acc) ==
    IF h = <<>> THEN acc ELSE DecimalValue(Tail(h), acc * 10 + DigitValue(Head(h)))

\* The size the claim recovers from header h.
HeaderSize(h) == IF ValidInteger(h) THEN DecimalValue(h, 0) ELSE 0

\* C11 (as claimed): the request size captured at request start and the
\* response size recorded at completion are the integer value of the
\* content-length header when it is a valid integer and 0 when it is absent
\* or malformed; no recorded size is negative.
C11_SizeHeaderRecovery ==
    /\ \A r \in Requests :
           /\ req[r].metrics.attached
                  => req[r].metrics.contentLength = HeaderSize(req[r].contentLength)
           /\ (Classified(r) /\ Truthy(Label(r)))
                  => \E x \in BagToSet(samples) :
                        /\ x.name = responseSizeHistogram
                        /\ x.n = HeaderSize(res[r].contentLength)
    /\ \A x \in BagToSet(samples) : x.unit = "bytes" => x.n >= 0

\* C12 (as claimed): for every combination of routing metadata and every
\* status code the completion handler returns without raising an error, so
\* that nothing prevents its recordings.
C12_HandlerNeverRaises ==
    \A r \in Requests : handled[r] > 0 => ~route[r].threw

\* A completed request for which no route pattern at all was found (neither
\* an alternate-descriptor path pattern nor a matched route pattern) and
\* whose final status is 404.
Unclassifiable(r) ==
    /\ req[r].swaggerApiPath = Undefined
    /\ req[r].routePath = Undefined
    /\ res[r].statusCode = 404

\* C13 (as claimed): the completion handler records nothing if and only if
\* the request is unclassifiable; for every other completed request a label
\* is derived and the three histograms are observed once each.  (Stated for
\* the requests of a framework that gives the raw URL and links the
\* response to the request, the single cycle of the classifier.)
C13_SkippedIffUnclassifiable ==
    (handled[1] > 0 /\ Truthy(req[1].url) /\ req[1].hasRes)
        => IF Unclassifiable(1)
           THEN samples = EmptyBag
           ELSE /\ Classified(1) /\ Truthy(Label(1))
                /\ BagCardinality(samples) = 3

\* A cycle whose completion handler ran and got a label.
Labelled(r) == Classified(r) /\ Truthy(Label(r))

\* The number of recorded observations of the histogram kind base with
\* label tuple (m, l, c), unit and value n.
Copies(base, m, l, c, unit, n) ==
    LET xs == { x \in BagToSet(samples) :
                  /\ BaseName(x.name) = base /\ x.method = m /\ x.route = l
                  /\ x.code = c /\ x.unit = unit /\ x.n = n }
    IN  BagCardinality([x \in xs |-> samples[x]])

\* The labelled cycles that record the same size observation of kind base
\* as cycle r.
SameSize(r, base) ==
    { r2 \in Requests :
        /\ Labelled(r2)
        /\ req[r2].method = req[r].method
        /\ Label(r2) = Label(r)
        /\ res[r2].statusCode = res[r].statusCode
        /\ IF base = RequestSizeMetric
           THEN ParseIntOrZero(req[r2].contentLength) = ParseIntOrZero(req[r].contentLength)
           ELSE ParseIntOrZero(res[r2].contentLength) = ParseIntOrZero(res[r].contentLength) }

\* C14: under any interleaving of request starts and completions, (a) a
\* completion never precedes the start of its own request, (b) each
\* labelled completion recorded the request size read from its own
\* request's header and stopped the timer its own request started, under
\* its own label tuple, and no timer is stopped twice or under another
\* request's labels, (c) the recorded observations are exactly three per
\* labelled completion, a function of each request's own data and not of
\* the order in which the requests completed.
C14_PerRequestIsolation ==
    /\ \A r \in Requests :
          handled[r] > 0
              => /\ nextCalls[r] = 1
                 /\ req[r].metrics.attached
                 /\ req[r].metrics.timer.started = r
                 /\ req[r].metrics.timer.method = req[r].method
                 /\ req[r].metrics.contentLength = ParseIntOrZero(req[r].contentLength)
    /\ \A r \in Requests :
          Labelled(r)
              => /\ Copies(DurationMetric, req[r].method, Label(r),
                           res[r].statusCode, "seconds", r) = 1
                 /\ Copies(RequestSizeMetric, req[r].method, Label(r),
                           res[r].statusCode, "bytes",
                           ParseIntOrZero(req[r].contentLength))
                        = Cardinality(SameSize(r, RequestSizeMetric))
                 /\ Copies(ResponseSizeMetric, req[r].method, Label(r),
                           res[r].statusCode, "bytes",
                           ParseIntOrZero(res[r].contentLength))
                        = Cardinality(SameSize(r, ResponseSizeMetric))
    /\ \A x \in BagToSet(samples) :
          x.unit = "seconds" => /\ x.n \in Requests
                                /\ Labelled(x.n)
                                /\ x.route = Label(x.n)
                                /\ x.code = res[x.n].statusCode
                                /\ x.name = req[x.n].metrics.timer.histogram
    /\ BagCardinality(samples) = 3 * Cardinality({ r \in Requests : Labelled(r) })

\* C14 witness: two requests with different sizes in flight together; the
\* one that started later has completed and was recorded with its own size
\* and timer while the earlier one is still being processed downstream.
C14_Witness ==
    \E r1, r2 \in Requests :
        /\ r1 < r2
        /\ pc[r1] = "downstream"
        /\ pc[r2] = "finished"
        /\ Labelled(r2)
        /\ req[r1].metrics.contentLength # req[r2].metrics.contentLength
        /\ Copies(RequestSizeMetric, req[r2].method, Label(r2), res[r2].statusCode,
                  "bytes", req[r2].metrics.contentLength) = 1
        /\ Copies(DurationMetric, req[r2].method, Label(r2), res[r2].statusCode,
                  "seconds", r2) = 1

\* The premise of C15: the middleware saw a request whose URL is neither
\* the configured metrics path nor that path followed by '.json'.
OrdinaryRequest(r) ==
    /\ pc[r] # "idle"
    /\ req[r].url # metricsRoute
    /\ req[r].url # metricsRoute \o DotJson

\* C15: a request whose URL is neither the metrics path nor the path plus
\* '.json' is never answered by the middleware: the request context is
\* attached, the completion callback is registered (and runs once the
\* response finishes) and next is called exactly once; this includes URLs
\* that are a prefix or an extension of the metrics path.
C15_OrdinaryPassedDownstream ==
    \A r \in Requests :
        OrdinaryRequest(r)
            => /\ nextCalls[r] = 1
               /\ req[r].metrics.attached
               /\ res[r].body = "none"
               /\ res[r].contentType = "none"
               /\ pc[r] \in {"downstream", "finished", "closed"}
               /\ pc[r] \in {"downstream", "closed"}
                      => res[r].finishListeners = 1 /\ handled[r] = 0
               /\ pc[r] = "finished"
                      => res[r].finishListeners = 0 /\ handled[r] = 1

\* C15 witness: a request for the metrics path with a query string was
\* passed downstream and not answered by the middleware.
C15_Witness ==
    \E r \in Requests :
        /\ req[r].url = metricsRoute \o QueryString
        /\ pc[r] = "downstream"
        /\ nextCalls[r] = 1
        /\ res[r].finishListeners = 1
        /\ res[r].body = "none"

\* The names the configuration of one factory call asks for: the base names
\* without prefixing, the project prefix applied once with it.
NamesFor(options) ==
    IF options.useUniqueHistogramName
    THEN [http_request_duration_seconds |-> <<projectName, "_", DurationMetric>>,
          http_request_size_bytes       |-> <<projectName, "_", RequestSizeMetric>>,
          http_response_size_bytes      |-> <<projectName, "_", ResponseSizeMetric>>,
          defaultMetricsPrefix          |-> <<projectName, "_">>]
    ELSE [http_request_duration_seconds |-> <<DurationMetric>>,
          http_request_size_bytes       |-> <<RequestSizeMetric>>,
          http_response_size_bytes      |-> <<ResponseSizeMetric>>,
          defaultMetricsPrefix          |-> <<>>]

\* C16 (as claimed): after any sequence of factory calls the metric
\* definitions used for recording, and the default-metrics prefix, carry
\* the names the options of the latest call alone determine: the base names
\* when prefixing is off, the prefix applied exactly once when it is on.
C16_PrefixFromCallAlone ==
    bootstraps > 0
        => /\ responseTimeHistogram = NamesFor(lastOptions).http_request_duration_seconds
           /\ requestSizeHistogram = NamesFor(lastOptions).http_request_size_bytes
           /\ responseSizeHistogram = NamesFor(lastOptions).http_response_size_bytes
           /\ metricNames.defaultMetricsPrefix = NamesFor(lastOptions).defaultMetricsPrefix

\* The step in which a middleware handles the request of cycle r, judged
\* against the path P its factory call configured: the snapshot is served
\* at P and at P + '.json', and nowhere else.
C17_ServesAt(r, P) ==
    /\ req'[r].url = P => res'[r].body = "text"
    /\ req'[r].url = P \o DotJson => res'[r].body = "json"
    /\ req'[r].url \notin {P, P \o DotJson} => res'[r].body = "none"

\* C17 (as claimed): a middleware obtained from a factory call that
\* configured the metrics path P serves the snapshot at exactly P and
\* P + '.json' for every later request, also after the factory was called
\* again with another metrics path.
C17_PathSnapshotKept ==
    [][\A r \in Requests :
          (pc[r] = "idle" /\ pc'[r] # "idle")
              => \A P \in configuredPaths : C17_ServesAt(r, P)]_vars

\* The routing outcome read back from the request and the response of
\* cycle r after a step.
OutcomeLeft(r) ==
    [baseUrl |-> req'[r].baseUrl, routePath |-> req'[r].routePath,
     swaggerApiPath |-> req'[r].swaggerApiPath, params |-> req'[r].params,
     hasRes |-> req'[r].hasRes, statusCode |-> res'[r].statusCode,
     contentLength |-> res'[r].contentLength, downstream |-> res'[r].downstream]

\* One step in which the completion handler of cycle r runs: afterwards the
\* request still has the URL, method, content-length header and context it
\* had at request start, its routing metadata and the response's status and
\* content-length are the values the framework delivered, and the label
\* the handler computed is the classifier's label for exactly that request.
C18_HandlerStep(r) ==
    /\ req'[r].url = req[r].url
    /\ req'[r].method = req[r].method
    /\ req'[r].contentLength = req[r].contentLength
    /\ req'[r].metrics = req[r].metrics
    /\ OutcomeLeft(r) \in WideOutcomes
    /\ req'[r].statusCode = res'[r].statusCode
    /\ res'[r].body = res[r].body
    /\ route'[r] = _getRoute(req'[r])

====
